---- MODULE Spec2Model ----
(***************************************************************************)
(* Model of cloud-cli: the command tree and its dispatcher (src/cmd.rs)    *)
(* and the transaction signer (src/sdk/controller.rs).                     *)
(***************************************************************************)
EXTENDS Integers, Sequences, FiniteSets, TLC

VARIABLES bench, last, ex, nops, sg, abi, rpc, bn, st

vars == <<bench, last, ex, nops, sg, abi, rpc, bn, st>>

(***************************************************************************)
(* Bounds                                                                  *)
(***************************************************************************)
\* builder operations explored before a tree is executed
MaxOps == 5
\* commands under construction at once (the root and two more)
MaxBench == 3
\* entries in one node's grammar
MaxSubs == 2
\* length of an argument vector / of a chain of parsed matches
MaxArgs == 2
\* largest byte value and longest byte string of a transaction body field
MaxByte == 1
MaxData == 2
\* number of key pairs
MaxKey == 2
\* lengths of the Crypto Provider's fixed-length types, scaled down
HashLen == 2
AddrLen == 1
\* largest block height the node reports and largest `--until` value
MaxHeight == 2
MaxUntil == 2
\* bench: requested transactions, chain length, transactions in one block
MaxTx == 2
MaxChain == 3
MaxBlockTx == 2

Names == {"a", "b", "c"}
RootName == "cldi"

\* the handlers a command can carry: the default one and three kinds of
\* custom function: one that ends the recursion with success, one that
\* fails, one that changes the context and then falls through to the
\* default recursion
DefaultHandler == "dispatch_subcmd"
CustomHandlers == {"terminal", "failing", "override_then_dispatch"}
Dispatching == {DefaultHandler, "override_then_dispatch"}

(***************************************************************************)
(* Values                                                                  *)
(***************************************************************************)
EmptyMap == [n \in {} |-> 0]

Put(f, k, v) == [n \in (DOMAIN f) \cup {k} |-> IF n = k THEN v ELSE f[n]]

Remove(f, k) == [n \in (DOMAIN f) \ {k} |-> f[n]]

Ok == [ok |-> TRUE, msg |-> "", arg |-> "", context |-> <<>>]

Err(msg, arg) == [ok |-> FALSE, msg |-> msg, arg |-> arg, context |-> <<>>]

NoOp == [op |-> "none"]

\* the signer before any call
NoRaw == [kind |-> "none"]

SignIdle == [pc |-> "idle", fn |-> "", body |-> [type |-> "none"],
             account |-> [key |-> 1, unlocked |-> TRUE, can_sign |-> TRUE],
             tx_bytes |-> <<>>, tx_hash |-> <<>>, sender |-> <<>>, signature |-> <<>>,
             raw |-> NoRaw, result |-> Ok, log |-> <<>>]

\* the store-contract-abi handler before it runs
AbiIdle == [pc |-> "idle", account |-> 0, plus |-> FALSE, v |-> 0, height |-> 0,
            reachable |-> TRUE, valid_until_block |-> 0, calls |-> <<>>, result |-> Ok]

\* the controller client before a call
RpcIdle == [pc |-> "idle", fn |-> "", block_number |-> 0, reachable |-> TRUE,
            resp |-> <<>>, value |-> <<>>, result |-> Ok]

\* the bench workflow before it starts; chain[h] is the number of
\* transactions in the block at height h, fetched[h] how often it was fetched
BenchIdle == [pc |-> "idle", tx_count |-> 0, chain |-> <<0>>, start0 |-> 0, start_at |-> 0,
              end_at |-> 0, sent |-> {}, finalized_tx |-> 0, pending |-> {},
              blocks |-> [h \in {} |-> 0], fetched |-> [h \in 1 .. MaxChain |-> 0],
              polled |-> FALSE,
              round |-> [n |-> 0, start_at |-> 0, finalized_tx |-> 0, fetches |-> 0]]

\* main before its settings are resolved
SettingsIdle == [pc |-> "start", matches |-> << >>, env |-> << >>, used |-> << >>]

(***************************************************************************)
(* clap's App as the command framework uses it                             *)
(***************************************************************************)
App_new(n) == [name |-> n, aliases |-> {}, subcommands |-> <<>>]

aliases_to(app, n) == n = app.name \/ n \in app.aliases

\* index of the first subcommand whose name or alias is `name`, 0 if none
find_subcommand_mut(app, n) ==
    LET hits == {i \in DOMAIN app.subcommands : aliases_to(app.subcommands[i], n)}
    IN  IF hits = {} THEN 0 ELSE CHOOSE i \in hits : \A j \in hits : i <= j

\* index of the first subcommand named exactly `name`, 0 if none
FindByName(app, n) ==
    LET hits == {i \in DOMAIN app.subcommands : app.subcommands[i].name = n}
    IN  IF hits = {} THEN 0 ELSE CHOOSE i \in hits : \A j \in hits : i <= j

SubcommandNames(app) == {app.subcommands[i].name : i \in DOMAIN app.subcommands}

(***************************************************************************)
(* Command: the builder                                                    *)
(***************************************************************************)
Command_new(n) == [app |-> App_new(n), handler |-> DefaultHandler, subcmds |-> EmptyMap]

name(self, n) == [self EXCEPT !.app.name = n]

alias(self, n) == [self EXCEPT !.app.aliases = @ \cup {n}]

handler(self, h) == [self EXCEPT !.handler = h]

get_name(self) == self.app.name

subcommand(self, subcmd) ==
    [self EXCEPT !.app.subcommands = Append(@, subcmd.app),
                 !.subcmds = Put(@, get_name(subcmd), subcmd)]

RECURSIVE subcommands(_, _)
subcommands(self, subcmds) ==
    IF subcmds = <<>> THEN self
    ELSE subcommands(subcommand(self, Head(subcmds)), Tail(subcmds))

\* the outcome of rename_subcommand: its result and the command as it is
\* left; "panic" is the failed expect, which leaves the grammar renamed
rename_subcommand(self, old, new) ==
    LET idx == find_subcommand_mut(self.app, old) IN
    IF idx = 0
    THEN [result |-> Err("subcommand no found", ""), panic |-> FALSE, cmd |-> self]
    ELSE LET renamed == [self EXCEPT !.app.subcommands[idx].name = new] IN
         IF old \notin DOMAIN self.subcmds
         THEN [result |-> Err("subcommand no found", ""), panic |-> TRUE, cmd |-> renamed]
         ELSE [result |-> Ok, panic |-> FALSE,
               cmd |-> [renamed EXCEPT !.subcmds =
                           Put(Remove(@, old), new, name(self.subcmds[old], new))]]

\* try_get_matches_from: the argument vector resolved against the grammar
\* into the chain of invoked subcommand names, or clap's own error
RECURSIVE try_get_matches_from(_, _)
try_get_matches_from(app, argv) ==
    IF argv = <<>> THEN [ok |-> TRUE, m |-> <<>>]
    ELSE LET idx == find_subcommand_mut(app, Head(argv)) IN
         IF idx = 0 THEN [ok |-> FALSE, m |-> <<>>]
         ELSE LET sc_name == app.subcommands[idx].name
                  sc == app.subcommands[FindByName(app, sc_name)]
                  rest == try_get_matches_from(sc, Tail(argv))
              IN  IF rest.ok THEN [ok |-> TRUE, m |-> <<sc_name>> \o rest.m]
                  ELSE rest

(***************************************************************************)
(* Command: execution                                                      *)
(***************************************************************************)
\* dispatch_subcmd up to the point where it either returns or calls the
\* matched child's exec_with
dispatch_subcmd_SilentNoOp(self, m) ==
    IF m # <<>> /\ Head(m) \in DOMAIN self.subcmds
    THEN [kind |-> "exec_with", result |-> Ok,
          subcmd |-> self.subcmds[Head(m)], m |-> Tail(m)]
    ELSE [kind |-> "return", result |-> Ok]

dispatch_subcmd_NoDescend(self, m) ==
    IF m = <<>> \/ Head(m) \in DOMAIN self.subcmds
    THEN [kind |-> "return", result |-> Ok]
    ELSE [kind |-> "return", result |-> Err("no subcommand handler for", Head(m))]

dispatch_subcmd(self, m) ==
    IF m = <<>> THEN [kind |-> "return", result |-> Ok]
    ELSE IF Head(m) \in DOMAIN self.subcmds
         THEN [kind |-> "exec_with", result |-> Ok,
               subcmd |-> self.subcmds[Head(m)], m |-> Tail(m)]
         ELSE [kind |-> "return", result |-> Err("no subcommand handler for", Head(m))]

\* dispatch_subcmd once the child's exec_with has returned r: `?` then Ok(())
AfterSubcmd_Swallow(r) == Ok

AfterSubcmd(r) == IF r.ok THEN Ok ELSE r

\* exec_with hands back what the handler returned
ExecWithReturn(self, r) == r

\* what a handler does when called: a custom terminal handler succeeds, a
\* failing one returns its own error, the others go through dispatch_subcmd
RunHandler(self, m) ==
    CASE self.handler = "terminal" -> [kind |-> "return", result |-> Ok]
      [] self.handler = "failing" -> [kind |-> "return", result |-> Err("handler failed", "")]
      [] OTHER -> dispatch_subcmd(self, m)

Frame(cmd, m, path) == [cmd |-> cmd, m |-> m, path |-> path]

Idle == [pc |-> "idle", cmd |-> Command_new(RootName), m |-> <<>>, stack |-> <<>>,
         trace |-> <<>>, result |-> Ok, ctx |-> "default"]

Start(cmd, m) == [pc |-> "call", cmd |-> cmd, m |-> m, stack |-> <<Frame(cmd, m, <<>>)>>,
                  trace |-> <<>>, result |-> Ok, ctx |-> "default"]

Pop(stack) == SubSeq(stack, 1, Len(stack) - 1)

Top(stack) == stack[Len(stack)]

SeqsUpTo(S, n) == UNION {[1..k -> S] : k \in 0..n}

(***************************************************************************)
(* Actions of the command framework                                        *)
(***************************************************************************)
Building == ex.pc = "idle" /\ last.op # "panic" /\ nops < MaxOps

Replace(k, cmd) == [bench EXCEPT ![k] = cmd]

NewCmd ==
    /\ Building
    /\ Len(bench) < MaxBench
    /\ \E n \in Names :
         /\ bench' = Append(bench, Command_new(n))
         /\ last' = [op |-> "new", name |-> n]
    /\ nops' = nops + 1
    /\ UNCHANGED <<ex, sg, abi, rpc, bn, st>>

SetAlias ==
    /\ Building
    /\ Len(bench) > 1
    /\ Top(bench).app.aliases = {}
    /\ Top(bench).subcmds = EmptyMap
    /\ \E n \in Names \ {get_name(Top(bench))} :
         /\ bench' = Replace(Len(bench), alias(Top(bench), n))
         /\ last' = [op |-> "alias", name |-> n]
    /\ nops' = nops + 1
    /\ UNCHANGED <<ex, sg, abi, rpc, bn, st>>

SetHandler ==
    /\ Building
    /\ Top(bench).handler = DefaultHandler
    /\ \E h \in CustomHandlers :
         /\ bench' = Replace(Len(bench), handler(Top(bench), h))
         /\ last' = [op |-> "handler", name |-> h]
    /\ nops' = nops + 1
    /\ UNCHANGED <<ex, sg, abi, rpc, bn, st>>

AddSubcommand ==
    /\ Building
    /\ Len(bench) > 1
    /\ LET k == Len(bench) - 1 IN
         /\ Len(bench[k].app.subcommands) < MaxSubs
         /\ bench' = SubSeq(Replace(k, subcommand(bench[k], Top(bench))), 1, k)
         /\ last' = [op |-> "subcommand", pre |-> bench[k], names |-> <<get_name(Top(bench))>>]
    /\ nops' = nops + 1
    /\ UNCHANGED <<ex, sg, abi, rpc, bn, st>>

AddSubcommands ==
    /\ Building
    /\ Len(bench) > 2
    /\ LET k == Len(bench) - 2
           subcmds == SubSeq(bench, k + 1, Len(bench)) IN
         /\ Len(bench[k].app.subcommands) + 2 <= MaxSubs
         /\ bench' = SubSeq(Replace(k, subcommands(bench[k], subcmds)), 1, k)
         /\ last' = [op |-> "subcommand", pre |-> bench[k],
                     names |-> <<get_name(subcmds[1]), get_name(subcmds[2])>>]
    /\ nops' = nops + 1
    /\ UNCHANGED <<ex, sg, abi, rpc, bn, st>>

RenameChild ==
    /\ Building
    /\ Len(bench) = 1
    /\ \E old \in Names, new \in Names :
         LET r == rename_subcommand(bench[1], old, new) IN
         /\ bench' = Replace(1, r.cmd)
         /\ last' = [op |-> IF r.panic THEN "panic" ELSE "rename_subcommand",
                     pre |-> bench[1], old |-> old, new |-> new, result |-> r.result]
    /\ nops' = nops + 1
    /\ UNCHANGED <<ex, sg, abi, rpc, bn, st>>

exec_with ==
    /\ ex.pc = "idle" /\ last.op # "panic"
    /\ Len(bench) = 1
    /\ \E m \in SeqsUpTo(Names, MaxArgs) : ex' = Start(bench[1], m)
    /\ UNCHANGED <<bench, last, nops, sg, abi, rpc, bn, st>>

exec_from ==
    /\ ex.pc = "idle" /\ last.op # "panic"
    /\ Len(bench) = 1
    /\ \E argv \in SeqsUpTo(Names, MaxArgs) :
         LET p == try_get_matches_from(bench[1].app, argv) IN
         ex' = IF p.ok THEN [Start(bench[1], p.m) EXCEPT !.pc = "call"]
               ELSE [Idle EXCEPT !.pc = "done", !.cmd = bench[1],
                                 !.result = Err("clap", Head(argv))]
    /\ UNCHANGED <<bench, last, nops, sg, abi, rpc, bn, st>>

\* the handler of the innermost exec_with runs
Call ==
    /\ ex.pc = "call"
    /\ LET f == Top(ex.stack)
           h == RunHandler(f.cmd, f.m)
           out == IF h.kind = "exec_with" THEN "exec_with"
                  ELSE IF h.result.ok THEN "ok"
                  ELSE IF f.cmd.handler = "failing" THEN "failed" ELSE "bail"
           entry == [path |-> f.path, name |-> get_name(f.cmd), handler |-> f.cmd.handler,
                     m |-> f.m, children |-> DOMAIN f.cmd.subcmds, out |-> out]
           ctx == IF f.cmd.handler = "override_then_dispatch" THEN "override" ELSE ex.ctx
       IN  IF h.kind = "exec_with"
           THEN ex' = [ex EXCEPT !.trace = Append(@, entry), !.ctx = ctx,
                          !.stack = Append(@, Frame(h.subcmd, h.m,
                                                    Append(f.path, Head(f.m))))]
           ELSE ex' = [ex EXCEPT !.trace = Append(@, entry), !.ctx = ctx,
                          !.stack = Pop(@),
                          !.result = ExecWithReturn(f.cmd, h.result),
                          !.pc = IF Len(ex.stack) = 1 THEN "done" ELSE "return"]
    /\ UNCHANGED <<bench, last, nops, sg, abi, rpc, bn, st>>

\* a child's exec_with has returned into its parent's dispatch_subcmd
Return ==
    /\ ex.pc = "return"
    /\ LET f == Top(ex.stack) IN
       ex' = [ex EXCEPT !.stack = Pop(@),
                        !.result = ExecWithReturn(f.cmd, AfterSubcmd(ex.result)),
                        !.pc = IF Len(ex.stack) = 1 THEN "done" ELSE "return"]
    /\ UNCHANGED <<bench, last, nops, sg, abi, rpc, bn, st>>

InitCmd ==
    /\ bench = <<Command_new(RootName)>>
    /\ last = NoOp
    /\ ex = Idle
    /\ nops = 0
    /\ sg = SignIdle
    /\ abi = AbiIdle
    /\ rpc = RpcIdle
    /\ bn = BenchIdle
    /\ st = SettingsIdle

NextCmd ==
    \/ NewCmd \/ SetAlias \/ SetHandler \/ AddSubcommand \/ AddSubcommands \/ RenameChild
    \/ exec_with \/ exec_from \/ Call \/ Return

SpecCmd == InitCmd /\ [][NextCmd]_vars

(***************************************************************************)
(* Properties of the command framework                                     *)
(***************************************************************************)
RECURSIVE PathMatches(_, _)
PathMatches(cmd, m) ==
    \/ m = <<>>
    \/ /\ Head(m) \in DOMAIN cmd.subcmds
       /\ PathMatches(cmd.subcmds[Head(m)], Tail(m))

RECURSIVE NodeAt(_, _)
NodeAt(cmd, path) ==
    IF path = <<>> THEN cmd ELSE NodeAt(cmd.subcmds[Head(path)], Tail(path))

IsLeaf(cmd) == DOMAIN cmd.subcmds = {}

ProperPrefixes(m) == {SubSeq(m, 1, k) : k \in 0 .. Len(m) - 1}

Invoked(path) ==
    \E i \in DOMAIN ex.trace :
        /\ ex.trace[i].path = path
        /\ ex.trace[i].handler = NodeAt(ex.cmd, path).handler

Failing(e) == e.out \in {"failed", "bail"}

ErrorOf(e) ==
    IF e.out = "failed" THEN Err("handler failed", "")
    ELSE Err("no subcommand handler for", Head(e.m))

NoDuplicateNames(app) ==
    \A i, j \in DOMAIN app.subcommands :
        app.subcommands[i].name = app.subcommands[j].name => i = j

Registered(l) == {l.names[i] : i \in DOMAIN l.names}

\* C1: a registration under a name that the parent already holds (or that
\* occurs twice in one subcommands call) is rejected: the parent is left as
\* it was and no child replaces another in the child map.
C1_DuplicateChildRejected ==
    (/\ last.op = "subcommand"
     /\ \/ Registered(last) \cap DOMAIN last.pre.subcmds # {}
        \/ Cardinality(Registered(last)) < Len(last.names))
    => Top(bench) = last.pre

\* C2: when dispatch_subcmd is given matches that name a subcommand with no
\* entry in the node's child map, it returns the error "no subcommand
\* handler for <name>", never success.
C2_MissingChildIsError ==
    (/\ ex.pc \in {"return", "done"}
     /\ ex.trace # <<>>
     /\ LET e == Top(ex.trace) IN
          /\ e.handler \in Dispatching
          /\ e.m # <<>>
          /\ Head(e.m) \notin e.children
          /\ Len(ex.stack) = Len(e.path))
    => ex.result = Err("no subcommand handler for", Head(Top(ex.trace).m))

C2_Witness ==
    /\ ex.pc = "return"
    /\ ex.trace # <<>>
    /\ LET e == Top(ex.trace) IN
         /\ e.handler = DefaultHandler
         /\ e.m # <<>>
         /\ Head(e.m) \notin e.children
         /\ e.children # {}
         /\ Len(ex.stack) = Len(e.path)
    /\ ~ex.result.ok

\* C3 as claimed: an invocation path that matches a chain of children down
\* to a leaf ends with that leaf's handler invoked, whatever handlers the
\* nodes above it carry, provided none of them fails.
C3_LeafReachedWhateverHandlers ==
    (/\ ex.pc = "done"
     /\ ex.m # <<>>
     /\ PathMatches(ex.cmd, ex.m)
     /\ IsLeaf(NodeAt(ex.cmd, ex.m))
     /\ \A p \in ProperPrefixes(ex.m) : NodeAt(ex.cmd, p).handler # "failing")
    => Invoked(ex.m)

\* C3 as amended: the leaf's handler is invoked provided every node above it
\* on the path carries the default handler or a custom handler that falls
\* through to dispatch_subcmd.
C3_LeafReachedThroughDispatch ==
    (/\ ex.pc = "done"
     /\ ex.m # <<>>
     /\ PathMatches(ex.cmd, ex.m)
     /\ IsLeaf(NodeAt(ex.cmd, ex.m))
     /\ \A p \in ProperPrefixes(ex.m) : NodeAt(ex.cmd, p).handler \in Dispatching)
    => (Invoked(ex.m) /\ Top(ex.trace).path = ex.m)

C3_Witness ==
    /\ ex.pc = "done"
    /\ Len(ex.m) = 2
    /\ PathMatches(ex.cmd, ex.m)
    /\ IsLeaf(NodeAt(ex.cmd, ex.m))
    /\ NodeAt(ex.cmd, <<>>).handler = DefaultHandler
    /\ NodeAt(ex.cmd, SubSeq(ex.m, 1, 1)).handler = "override_then_dispatch"
    /\ NodeAt(ex.cmd, ex.m).handler = DefaultHandler
    /\ Invoked(ex.m)
    /\ ex.ctx = "override"

\* C4: the error that reaches the caller of exec_with after a handler
\* failed carries the name of the command whose handler failed.
C4_FailureWrappedWithName ==
    (/\ ex.pc = "done"
     /\ ex.trace # <<>>
     /\ Failing(Top(ex.trace)))
    => \E i \in DOMAIN ex.result.context : ex.result.context[i] = Top(ex.trace).name

\* C5: once a handler on the path has failed, no other handler is run, and
\* every enclosing dispatch_subcmd and exec_with returns that failure.
C5_FailurePropagates ==
    \A i \in DOMAIN ex.trace :
        Failing(ex.trace[i]) =>
            /\ i = Len(ex.trace)
            /\ ex.pc \in {"return", "done"}
            /\ ex.result = ErrorOf(ex.trace[i])

C5_Witness ==
    /\ ex.pc = "done"
    /\ Len(ex.trace) = 3
    /\ ex.trace[3].out = "failed"
    /\ ex.result = Err("handler failed", "")

\* C6: rename_subcommand(old, new) on a node whose child map has no `old`
\* returns the "not found" error without panicking and leaves the grammar
\* and the child map as they were.
C6_RenameMissingIsError ==
    (/\ last.op \in {"rename_subcommand", "panic"}
     /\ last.old \notin DOMAIN last.pre.subcmds)
    => /\ last.op = "rename_subcommand"
       /\ last.result = Err("subcommand no found", "")
       /\ bench[1] = last.pre

\* C7 (on nodes whose grammar holds no name twice): after rename_subcommand
\* returns, the grammar and the child map either both hold the child under
\* `new` and not under `old`, the child's own name being `new`, or both are
\* as they were.
C7_RenameAtomic ==
    (/\ last.op = "rename_subcommand"
     /\ NoDuplicateNames(last.pre.app))
    => \/ bench[1] = last.pre
       \/ /\ last.new \in SubcommandNames(bench[1].app)
          /\ last.old \notin SubcommandNames(bench[1].app)
          /\ last.new \in DOMAIN bench[1].subcmds
          /\ last.old \notin DOMAIN bench[1].subcmds
          /\ get_name(bench[1].subcmds[last.new]) = last.new

(***************************************************************************)
(* Crypto Provider, Account and the protobuf encoding                      *)
(***************************************************************************)
RECURSIVE SumSeq(_)
SumSeq(bytes) == IF bytes = <<>> THEN 0 ELSE Head(bytes) + SumSeq(Tail(bytes))

Weighted(bytes, w) == [i \in DOMAIN bytes |-> (i + w) * (bytes[i] + 1)]

\* C::hash: a digest of HashLen bytes
Hash(bytes) ==
    [i \in 1 .. HashLen |-> (SumSeq(Weighted(bytes, i)) + i * Len(bytes)) % 256]

\* a length-delimited field and a varint field, left out when default
BytesField(tag, v) == IF v = <<>> THEN <<>> ELSE <<tag, Len(v)>> \o v

VarintField(tag, v) == IF v = 0 THEN <<>> ELSE <<tag, v>>

\* prost's encoding of Transaction {to = 2, quota = 4, data = 6}
EncodeTx(tx) ==
    BytesField(18, tx.to) \o VarintField(32, tx.quota) \o BytesField(50, tx.data)

\* prost's encoding of UtxoTransaction {output = 3, lock_id = 4}
EncodeUtxo(utxo) == BytesField(26, utxo.output) \o VarintField(32, utxo.lock_id)

Encode(body) == IF body.type = "Transaction" THEN EncodeTx(body) ELSE EncodeUtxo(body)

AddressOf(key) == [i \in 1 .. AddrLen |-> (7 * key + i) % 256]

\* a signature carries what lets the signer's key be recovered
CryptoSign(key, msg) == <<key>> \o Hash(<<key>> \o msg)

Verify(address, msg, signature) ==
    /\ signature # <<>>
    /\ AddressOf(Head(signature)) = address
    /\ signature = CryptoSign(Head(signature), msg)

\* AccountBehaviour::address and ::sign; either can fail
AccountAddress(account) ==
    IF account.unlocked THEN [ok |-> TRUE, value |-> AddressOf(account.key), err |-> Ok]
    ELSE [ok |-> FALSE, value |-> <<>>, err |-> Err("address", "")]

AccountSign(account, msg) ==
    IF account.can_sign THEN [ok |-> TRUE, value |-> CryptoSign(account.key, msg), err |-> Ok]
    ELSE [ok |-> FALSE, value |-> <<>>, err |-> Err("sign", "")]

ByteStrings == SeqsUpTo(0 .. MaxByte, MaxData)

Transactions ==
    [type : {"Transaction"}, to : SeqsUpTo(0 .. MaxByte, 1), quota : 0 .. 1, data : ByteStrings]

UtxoTransactions == [type : {"UtxoTransaction"}, output : ByteStrings, lock_id : 0 .. 1]

Accounts == [key : 1 .. MaxKey, unlocked : BOOLEAN, can_sign : BOOLEAN]

(***************************************************************************)
(* SignerBehaviour                                                         *)
(***************************************************************************)
\* the bytes that are hashed: the encoded unsigned body
TxBytes_Empty(s) == <<>>

TxBytes(s) == Encode(s.body)

\* the bytes handed to C::hash
HashInput(s) == s.tx_bytes

TxHash(s) == Hash(HashInput(s))

SignInput_Bytes(s) == s.tx_bytes

\* the bytes handed to the account's sign
SignInput(s) == s.tx_hash

Witness(sender, signature) == [sender |-> sender, signature |-> signature]

UnverifiedTransaction(s) ==
    [kind |-> "NormalTx", transaction |-> <<s.body>>, transaction_hash |-> s.tx_hash,
     witness |-> <<Witness(s.sender, s.signature)>>]

UnverifiedUtxoTransaction_NoWitness(s) ==
    [kind |-> "UtxoTx", transaction |-> <<s.body>>, transaction_hash |-> s.tx_hash,
     witnesses |-> <<>>]

UnverifiedUtxoTransaction(s) ==
    [kind |-> "UtxoTx", transaction |-> <<s.body>>, transaction_hash |-> s.tx_hash,
     witnesses |-> <<Witness(s.sender, s.signature)>>]

RawTransaction(s) ==
    IF s.fn = "sign_raw_tx" THEN UnverifiedTransaction(s) ELSE UnverifiedUtxoTransaction(s)

Logged(s, op, arg) == [s EXCEPT !.log = Append(@, <<op, arg>>)]

sign_raw_tx ==
    /\ sg.pc = "idle"
    /\ \E account \in Accounts, tx \in Transactions :
         sg' = [sg EXCEPT !.pc = "encode", !.fn = "sign_raw_tx",
                          !.body = tx, !.account = account]
    /\ UNCHANGED <<bench, last, ex, nops, abi, rpc, bn, st>>

sign_raw_utxo ==
    /\ sg.pc = "idle"
    /\ \E account \in Accounts, utxo \in UtxoTransactions :
         sg' = [sg EXCEPT !.pc = "encode", !.fn = "sign_raw_utxo",
                          !.body = utxo, !.account = account]
    /\ UNCHANGED <<bench, last, ex, nops, abi, rpc, bn, st>>

EncodeBody ==
    /\ sg.pc = "encode"
    /\ sg' = [Logged(sg, "encode", sg.body) EXCEPT !.tx_bytes = TxBytes(sg), !.pc = "hash"]
    /\ UNCHANGED <<bench, last, ex, nops, abi, rpc, bn, st>>

HashBytes ==
    /\ sg.pc = "hash"
    /\ sg' = [Logged(sg, "hash", HashInput(sg)) EXCEPT !.tx_hash = TxHash(sg), !.pc = "address"]
    /\ UNCHANGED <<bench, last, ex, nops, abi, rpc, bn, st>>

TakeAddress ==
    /\ sg.pc = "address"
    /\ LET a == AccountAddress(sg.account) IN
       sg' = IF a.ok
             THEN [Logged(sg, "address", <<>>) EXCEPT !.sender = a.value, !.pc = "sign"]
             ELSE [Logged(sg, "address", <<>>) EXCEPT !.result = a.err, !.pc = "done"]
    /\ UNCHANGED <<bench, last, ex, nops, abi, rpc, bn, st>>

SignHash ==
    /\ sg.pc = "sign"
    /\ LET r == AccountSign(sg.account, SignInput(sg)) IN
       sg' = IF r.ok
             THEN [Logged(sg, "sign", SignInput(sg)) EXCEPT !.signature = r.value,
                                                            !.pc = "assemble"]
             ELSE [Logged(sg, "sign", SignInput(sg)) EXCEPT !.result = r.err, !.pc = "done"]
    /\ UNCHANGED <<bench, last, ex, nops, abi, rpc, bn, st>>

Assemble ==
    /\ sg.pc = "assemble"
    /\ sg' = [Logged(sg, "witness", <<>>) EXCEPT !.raw = RawTransaction(sg),
                                                 !.result = Ok, !.pc = "done"]
    /\ UNCHANGED <<bench, last, ex, nops, abi, rpc, bn, st>>

InitSign ==
    /\ bench = <<Command_new(RootName)>>
    /\ last = NoOp
    /\ ex = Idle
    /\ nops = 0
    /\ sg = SignIdle
    /\ abi = AbiIdle
    /\ rpc = RpcIdle
    /\ bn = BenchIdle
    /\ st = SettingsIdle

NextSign ==
    sign_raw_tx \/ sign_raw_utxo \/ EncodeBody \/ HashBytes \/ TakeAddress \/ SignHash \/ Assemble

SpecSign == InitSign /\ [][NextSign]_vars

(***************************************************************************)
(* Properties of the signer                                                *)
(***************************************************************************)
SignSteps == <<"encode", "hash", "address", "sign", "witness">>

Signed == sg.pc = "done" /\ sg.result.ok

WitnessesOf(raw) == IF raw.kind = "NormalTx" THEN raw.witness ELSE raw.witnesses

\* C8: in sign_raw_tx and sign_raw_utxo the stored transaction_hash and the
\* bytes handed to sign are the hash of the encoding of the unsigned body
\* alone, and the steps run in the order encode, hash, sign, attach witness.
C8_HashOfEncodedBody ==
    /\ Len(sg.log) <= Len(SignSteps)
    /\ \A i \in DOMAIN sg.log :
         /\ sg.log[i][1] = SignSteps[i]
         /\ sg.log[i][1] = "encode" => sg.log[i][2] = sg.body
         /\ sg.log[i][1] = "hash" => sg.log[i][2] = Encode(sg.body)
         /\ sg.log[i][1] = "sign" => sg.log[i][2] = Hash(Encode(sg.body))
    /\ Signed => sg.raw.transaction_hash = Hash(Encode(sg.body))

C8_Witness ==
    /\ Signed
    /\ sg.fn = "sign_raw_utxo"
    /\ sg.body.output # <<>>
    /\ Len(sg.log) = Len(SignSteps)
    /\ sg.raw.transaction_hash = Hash(Encode(sg.body))

\* C9: a successful sign_raw_tx returns the NormalTx variant with one
\* witness, a successful sign_raw_utxo the UtxoTx variant with a witness
\* sequence of length 1, and the embedded body is the input body.
C9_ExactlyOneWitness ==
    Signed =>
        /\ sg.fn = "sign_raw_tx" => sg.raw.kind = "NormalTx"
        /\ sg.fn = "sign_raw_utxo" => sg.raw.kind = "UtxoTx"
        /\ sg.raw.kind \in {"NormalTx", "UtxoTx"}
        /\ Len(WitnessesOf(sg.raw)) = 1
        /\ sg.raw.transaction = <<sg.body>>

C9_Witness ==
    /\ Signed
    /\ sg.fn = "sign_raw_utxo"
    /\ sg.raw.kind = "UtxoTx"
    /\ Len(sg.raw.witnesses) = 1
    /\ sg.body.lock_id # 0

\* C10: in a signed transaction the witness's sender is the signing
\* account's address and its signature is that account's signature over the
\* content hash, so the witness verifies; when address() or sign() fails the
\* error is returned and no RawTransaction is produced.
C10_WitnessVerifies ==
    sg.pc = "done" =>
        IF ~sg.account.unlocked
        THEN sg.result = Err("address", "") /\ sg.raw = NoRaw
        ELSE IF ~sg.account.can_sign
        THEN sg.result = Err("sign", "") /\ sg.raw = NoRaw
        ELSE LET w == WitnessesOf(sg.raw)[1] IN
             /\ sg.result.ok
             /\ w.sender = AddressOf(sg.account.key)
             /\ w.signature = CryptoSign(sg.account.key, sg.raw.transaction_hash)
             /\ Verify(w.sender, sg.raw.transaction_hash, w.signature)

C10_Witness ==
    /\ Signed
    /\ sg.fn = "sign_raw_tx"
    /\ sg.account.key = MaxKey
    /\ sg.body.data # <<>>
    /\ Verify(sg.raw.witness[1].sender, sg.raw.transaction_hash, sg.raw.witness[1].signature)

(***************************************************************************)
(* store-contract-abi (src/cmd/evm.rs)                                     *)
(***************************************************************************)
\* Context::current_account: the signer, or a signing error when none is set
current_account(account) ==
    IF account = 0 THEN [ok |-> FALSE, err |-> Err("no current account", "")]
    ELSE [ok |-> TRUE, err |-> Ok]

\* a remote call: its answer, or a transport error when the node is unreachable
Remote(a) == IF a.reachable THEN Ok ELSE Err("transport", "")

Called(a, call) == [a EXCEPT !.calls = Append(@, call)]

\* the handler is entered with the parsed arguments: `--until` with or
\* without the `+` prefix (default +95), and a Context with or without a
\* current account
store_contract_abi ==
    /\ abi.pc = "idle"
    /\ \E account \in 0 .. MaxKey, plus \in BOOLEAN, v \in 0 .. MaxUntil,
          height \in 0 .. MaxHeight, reachable \in BOOLEAN :
         abi' = [abi EXCEPT !.pc = "valid_until_block", !.account = account, !.plus = plus,
                            !.v = v, !.height = height, !.reachable = reachable]
    /\ UNCHANGED <<bench, last, ex, nops, sg, rpc, bn, st>>

\* evm.rs 146-155: `+h` asks the controller for the current height
ValidUntilBlock ==
    /\ abi.pc = "valid_until_block"
    /\ abi' = IF abi.plus
              THEN IF Remote(abi).ok
                   THEN [Called(abi, "get_block_number") EXCEPT
                            !.valid_until_block = abi.height + abi.v, !.pc = "signer"]
                   ELSE [Called(abi, "get_block_number") EXCEPT
                            !.result = Remote(abi), !.pc = "done"]
              ELSE [abi EXCEPT !.valid_until_block = abi.v, !.pc = "signer"]
    /\ UNCHANGED <<bench, last, ex, nops, sg, rpc, bn, st>>

\* evm.rs 157: ctx.current_account()?
Signer ==
    /\ abi.pc = "signer"
    /\ abi' = IF current_account(abi.account).ok
              THEN [abi EXCEPT !.pc = "store"]
              ELSE [abi EXCEPT !.result = current_account(abi.account).err, !.pc = "done"]
    /\ UNCHANGED <<bench, last, ex, nops, sg, rpc, bn, st>>

\* evm.rs 158-166: the signed transaction is sent through the controller
StoreAbi ==
    /\ abi.pc = "store"
    /\ abi' = [Called(abi, "store_contract_abi") EXCEPT !.result = Remote(abi), !.pc = "done"]
    /\ UNCHANGED <<bench, last, ex, nops, sg, rpc, bn, st>>

InitAbi ==
    /\ bench = <<Command_new(RootName)>>
    /\ last = NoOp
    /\ ex = Idle
    /\ nops = 0
    /\ sg = SignIdle
    /\ abi = AbiIdle
    /\ rpc = RpcIdle
    /\ bn = BenchIdle
    /\ st = SettingsIdle

NextAbi == store_contract_abi \/ ValidUntilBlock \/ Signer \/ StoreAbi

SpecAbi == InitAbi /\ [][NextAbi]_vars

\* C11: with no current account, store-contract-abi fails with the signing
\* error and has issued no remote call, get_block_number included.
C11_NoAccountNoRemoteCall ==
    (abi.pc = "done" /\ abi.account = 0)
    => (abi.calls = <<>> /\ abi.result = Err("no current account", ""))

(***************************************************************************)
(* ControllerBehaviour: send_raw and get_block_hash                        *)
(***************************************************************************)
\* C::Hash::try_from_slice: the bytes when they have the hash's length
try_from_slice(bytes) ==
    IF Len(bytes) = HashLen THEN [ok |-> TRUE, value |-> bytes, err |-> Ok]
    ELSE [ok |-> FALSE, value |-> <<>>, err |-> Err("invalid length", "")]

\* anyhow's .context(msg) on a failed result
WithContext(r, msg) ==
    IF r.ok THEN r ELSE [r EXCEPT !.err.context = <<msg>> \o @]

MismatchHint(fn) ==
    IF fn = "send_raw"
    THEN "controller returns an invalid transaction hash, maybe we are using a wrong signing algorithm?"
    ELSE "controller returns an invalid block hash, maybe we are using a different signing algorithm?"

HashOfResponse_Unchecked(fn, hash) == [ok |-> TRUE, value |-> hash, err |-> Ok]

\* controller.rs 61-62 and 88-89: the response's hash as a C::Hash
HashOfResponse(fn, hash) == WithContext(try_from_slice(hash), MismatchHint(fn))

Responses == SeqsUpTo(0 .. MaxByte, HashLen + 1)

send_raw ==
    /\ rpc.pc = "idle"
    /\ \E reachable \in BOOLEAN, resp \in Responses :
         rpc' = [rpc EXCEPT !.pc = "await", !.fn = "send_raw",
                            !.reachable = reachable, !.resp = resp]
    /\ UNCHANGED <<bench, last, ex, nops, sg, abi, bn, st>>

get_block_hash ==
    /\ rpc.pc = "idle"
    /\ \E block_number \in 0 .. MaxHeight, reachable \in BOOLEAN, resp \in Responses :
         rpc' = [rpc EXCEPT !.pc = "await", !.fn = "get_block_hash",
                            !.block_number = block_number,
                            !.reachable = reachable, !.resp = resp]
    /\ UNCHANGED <<bench, last, ex, nops, sg, abi, bn, st>>

\* the remote call returns: `.await?` hands a transport failure on, a
\* response goes through the length check
Responded ==
    /\ rpc.pc = "await"
    /\ rpc' = IF ~rpc.reachable
              THEN [rpc EXCEPT !.pc = "done", !.result = Err("transport", "")]
              ELSE LET h == HashOfResponse(rpc.fn, rpc.resp) IN
                   [rpc EXCEPT !.pc = "done", !.result = h.err, !.value = h.value]
    /\ UNCHANGED <<bench, last, ex, nops, sg, abi, bn, st>>

InitRpc ==
    /\ bench = <<Command_new(RootName)>>
    /\ last = NoOp
    /\ ex = Idle
    /\ nops = 0
    /\ sg = SignIdle
    /\ abi = AbiIdle
    /\ rpc = RpcIdle
    /\ bn = BenchIdle
    /\ st = SettingsIdle

NextRpc == send_raw \/ get_block_hash \/ Responded

SpecRpc == InitRpc /\ [][NextRpc]_vars

\* C12: a response of send_raw or get_block_hash whose hash has not the
\* provider's hash length is a failure, distinct from a transport failure
\* and carrying the hint at a signing-algorithm mismatch; a hash of the
\* right length is returned as it is.
C12_HashLengthChecked ==
    rpc.pc = "done" =>
        IF ~rpc.reachable THEN rpc.result = Err("transport", "")
        ELSE IF Len(rpc.resp) # HashLen
        THEN /\ ~rpc.result.ok
             /\ rpc.result.msg # "transport"
             /\ rpc.result.context = <<MismatchHint(rpc.fn)>>
             /\ rpc.value = <<>>
        ELSE rpc.result.ok /\ rpc.value = rpc.resp

C12_Witness ==
    /\ rpc.pc = "done"
    /\ rpc.fn = "get_block_hash"
    /\ rpc.reachable
    /\ Len(rpc.resp) = HashLen + 1
    /\ ~rpc.result.ok
    /\ rpc.result.context # <<>>

(***************************************************************************)
(* bench: batch send and track (src/main.rs)                               *)
(***************************************************************************)
RECURSIVE SumOver(_, _, _)
SumOver(f, lo, hi) == IF lo > hi THEN 0 ELSE f[lo] + SumOver(f, lo + 1, hi)

\* client.get_block_number(false): the height of the newest block
get_block_number(b) == Len(b.chain)

WhileCond_NotEqual(b) == b.finalized_tx # b.tx_count

WhileCond_AtMost(b) == b.finalized_tx <= b.tx_count

\* main.rs 170: while finalized_tx < tx_count
WhileCond(b) == b.finalized_tx < b.tx_count

AtLoopHead(b) == [b EXCEPT !.pc = IF WhileCond(b) THEN "tick" ELSE "done"]

\* main.rs 174-178: fetch when n >= start_at, otherwise continue
ShouldFetch(n, start_at) == n >= start_at

NextStart_Skip(end_at) == end_at + 2

\* main.rs 214: start_at = end_at + 1
NextStart(end_at) == end_at + 1

Counted_Twice(b) == b.finalized_tx + 2 * SumOver(b.blocks, b.start_at, b.end_at)

\* main.rs 191-213: each joined block's transactions are added
Counted(b) == b.finalized_tx + SumOver(b.blocks, b.start_at, b.end_at)

TotalFetches(b) == SumOver(b.fetched, 1, MaxChain)

Chains == UNION {[1 .. k -> 0 .. MaxBlockTx] : k \in 1 .. MaxChain - 1}

\* main.rs 145-161: the count is parsed, the height recorded, one task per
\* transaction spawned
bench_cmd ==
    /\ bn.pc = "idle"
    /\ \E tx_count \in 0 .. MaxTx, chain \in Chains :
         bn' = [bn EXCEPT !.pc = "sending", !.tx_count = tx_count, !.chain = chain,
                          !.start0 = Len(chain), !.start_at = Len(chain)]
    /\ UNCHANGED <<bench, last, ex, nops, sg, abi, rpc, st>>

\* one submission task signs and sends its transaction
Send ==
    /\ bn.pc = "sending"
    /\ \E i \in (1 .. bn.tx_count) \ bn.sent : bn' = [bn EXCEPT !.sent = @ \cup {i}]
    /\ UNCHANGED <<bench, last, ex, nops, sg, abi, rpc, st>>

\* main.rs 162-170: join_all over the submissions, then the loop is entered
JoinSends ==
    /\ bn.pc = "sending"
    /\ bn.sent = 1 .. bn.tx_count
    /\ bn' = AtLoopHead([bn EXCEPT !.finalized_tx = 0])
    /\ UNCHANGED <<bench, last, ex, nops, sg, abi, rpc, st>>

\* main.rs 171-189: a tick, the current height, and either `continue` or one
\* fetch task per height in start_at..=end_at
Tick ==
    /\ bn.pc = "tick"
    /\ LET n == get_block_number(bn)
           b == [bn EXCEPT !.polled = TRUE,
                           !.round = [n |-> n, start_at |-> bn.start_at,
                                      finalized_tx |-> bn.finalized_tx,
                                      fetches |-> TotalFetches(bn)]]
       IN  bn' = IF ShouldFetch(n, bn.start_at)
                 THEN [b EXCEPT !.end_at = n, !.pc = "fetching",
                                !.pending = bn.start_at .. n,
                                !.blocks = [h \in {} |-> 0]]
                 ELSE AtLoopHead(b)
    /\ UNCHANGED <<bench, last, ex, nops, sg, abi, rpc, st>>

\* one fetch task returns its block
FetchDone ==
    /\ bn.pc = "fetching"
    /\ \E h \in bn.pending :
         bn' = [bn EXCEPT !.pending = @ \ {h},
                          !.blocks = Put(@, h, bn.chain[h]),
                          !.fetched[h] = @ + 1]
    /\ UNCHANGED <<bench, last, ex, nops, sg, abi, rpc, st>>

\* main.rs 188-214: join_all over the fetches, the counts are added and the
\* watermark moves
JoinFetches ==
    /\ bn.pc = "fetching"
    /\ bn.pending = {}
    /\ bn' = AtLoopHead([bn EXCEPT !.finalized_tx = Counted(bn),
                                   !.start_at = NextStart(bn.end_at)])
    /\ UNCHANGED <<bench, last, ex, nops, sg, abi, rpc, st>>

\* the chain produces a block
Produce ==
    /\ bn.pc \notin {"idle", "done"}
    /\ Len(bn.chain) < MaxChain
    /\ \E cnt \in 0 .. MaxBlockTx : bn' = [bn EXCEPT !.chain = Append(@, cnt)]
    /\ UNCHANGED <<bench, last, ex, nops, sg, abi, rpc, st>>

InitBench ==
    /\ bench = <<Command_new(RootName)>>
    /\ last = NoOp
    /\ ex = Idle
    /\ nops = 0
    /\ sg = SignIdle
    /\ abi = AbiIdle
    /\ rpc = RpcIdle
    /\ bn = BenchIdle
    /\ st = SettingsIdle

NextBench == bench_cmd \/ Send \/ JoinSends \/ Tick \/ FetchDone \/ JoinFetches \/ Produce

SpecBench == InitBench /\ [][NextBench]_vars

\* the tasks and the one-second ticks are scheduled by the tokio runtime;
\* the chain owes no block
SpecBenchFair ==
    /\ SpecBench
    /\ WF_vars(Send) /\ WF_vars(JoinSends) /\ WF_vars(Tick)
    /\ WF_vars(FetchDone) /\ WF_vars(JoinFetches)

\* heights the workflow is responsible for: from the recorded start on
Heights == 1 .. MaxChain

RoundComplete == bn.pc \in {"tick", "done"}

\* C13: the watermark start_at moves only to end_at + 1 and only once every
\* height of start_at..=end_at was fetched, so every height from the initial
\* start up to the watermark has been fetched; a round that reads a height
\* below the watermark fetches nothing and leaves watermark and count as
\* they were.
C13_WatermarkAdvance ==
    /\ bn.start_at >= bn.start0
    /\ \A h \in Heights : (bn.start0 <= h /\ h < bn.start_at) => bn.fetched[h] >= 1
    /\ (RoundComplete /\ bn.start_at # bn.start0) => bn.start_at = bn.end_at + 1
    /\ bn.pc = "fetching" => bn.start_at = bn.round.start_at
    /\ (bn.pc = "tick" /\ bn.polled /\ bn.round.n < bn.round.start_at) =>
          /\ bn.start_at = bn.round.start_at
          /\ bn.finalized_tx = bn.round.finalized_tx
          /\ TotalFetches(bn) = bn.round.fetches
          /\ bn.pending = {}

\* C13 witness: a round found no new height after an earlier round had moved
\* the watermark past two heights.
C13_Witness ==
    /\ bn.pc = "tick" /\ bn.polled
    /\ bn.round.n < bn.round.start_at
    /\ bn.start_at = bn.start0 + 2

\* C14: polling stops exactly when the count reaches the request: a round
\* begins only while the count is below it, the workflow is done only with
\* the count at or above it, and a request of zero ends with a count of zero
\* and neither a polling round nor a block fetch.
C14_StopsAtCount ==
    /\ bn.pc = "done" => bn.finalized_tx >= bn.tx_count
    /\ bn.pc = "tick" => bn.finalized_tx < bn.tx_count
    /\ bn.pc = "fetching" => bn.round.finalized_tx < bn.tx_count
    /\ bn.polled => bn.round.finalized_tx < bn.tx_count
    /\ (bn.pc \in {"sending", "tick", "fetching", "done"} /\ bn.tx_count = 0) =>
          /\ bn.pc \in {"sending", "done"}
          /\ ~bn.polled
          /\ TotalFetches(bn) = 0 /\ bn.pending = {}
          /\ bn.finalized_tx = 0

\* C14 witness: a zero request has completed.
C14_Witness == bn.pc = "done" /\ bn.tx_count = 0 /\ bn.finalized_tx = 0 /\ ~bn.polled

\* C15: blocks are fetched only for heights that became available after the
\* recorded height; while the height has not advanced past the recorded
\* start, nothing is fetched or counted.
C15_OnlyNewHeightsFetched ==
    /\ \A h \in Heights : (bn.fetched[h] > 0 \/ h \in bn.pending) => h > bn.start0
    /\ (bn.pc # "idle" /\ get_block_number(bn) = bn.start0) =>
          (TotalFetches(bn) = 0 /\ bn.pending = {} /\ bn.finalized_tx = 0)

\* C18: the count never decreases; after every completed round it is the sum
\* of the transaction counts of the heights from the initial start up to the
\* watermark, each of them fetched exactly once and no other height at all.
C18_CountIsSumOfBlocks ==
    /\ [][bn'.finalized_tx >= bn.finalized_tx]_vars
    /\ [](\A h \in Heights : bn.fetched[h] <= 1)
    /\ [](RoundComplete =>
            /\ bn.finalized_tx = SumOver(bn.chain, bn.start0, bn.start_at - 1)
            /\ \A h \in Heights :
                 bn.fetched[h] = IF bn.start0 <= h /\ h < bn.start_at THEN 1 ELSE 0)

\* C18 witness: a round that fetched two heights at once has been counted.
C18_Witness ==
    /\ RoundComplete /\ bn.polled
    /\ bn.end_at > bn.round.start_at
    /\ bn.start_at = bn.end_at + 1
    /\ bn.finalized_tx > 0

\* transactions in the blocks from the recorded start on
ChainTotal(b) == SumOver(b.chain, b.start0, Len(b.chain))

Flags == {"user", "controller_addr", "executor_addr"}

\* the environment variable read for each flag
EnvKey(flag) ==
    CASE flag = "user" -> "CITA_CLOUD_USER"
      [] flag = "controller_addr" -> "CITA_CLOUD_CONTROLLER_ADDR"
      [] flag = "executor_addr" -> "CITA_CLOUD_EXECUTOR_ADDR"

\* the fallback for each flag
Default(flag) ==
    CASE flag = "user" -> "default"
      [] flag = "controller_addr" -> "localhost:50004"
      [] flag = "executor_addr" -> "localhost:50002"

EnvKeys == {EnvKey(f) : f \in Flags}

None == [some |-> FALSE, value |-> ""]

Some(v) == [some |-> TRUE, value |-> v]

\* what the command line gives for a flag
FlagValues == {None, Some("from-flag"), Some("default")}

\* a variable of the process environment: absent, text, or bytes that are
\* not valid Unicode
Unset == [set |-> FALSE, unicode |-> TRUE, value |-> ""]

EnvValues == {Unset,
              [set |-> TRUE, unicode |-> TRUE, value |-> "from-env"],
              [set |-> TRUE, unicode |-> FALSE, value |-> "\\xff"]}

\* ArgMatches::value_of
value_of(matches, flag) == matches[flag]

\* std::env::var: Ok for a variable that is present and valid Unicode, Err
\* for one that is absent (NotPresent) or not valid Unicode (NotUnicode)
env_var(env, key) ==
    IF env[key].set /\ env[key].unicode
    THEN [ok |-> TRUE, value |-> env[key].value]
    ELSE [ok |-> FALSE, value |-> ""]

\* matches.value_of(flag).map(str::to_string).unwrap_or_else(|| ..)
Setting(matches, env, flag) ==
    IF value_of(matches, flag).some
    THEN value_of(matches, flag).value
    ELSE IF env_var(env, EnvKey(flag)).ok
         THEN env_var(env, EnvKey(flag)).value
         ELSE Default(flag)

\* main.rs 49-83: the command line is parsed and the three settings resolved
main_settings ==
    /\ st.pc = "start"
    /\ \E matches \in [Flags -> FlagValues], env \in [EnvKeys -> EnvValues] :
         st' = [pc |-> "resolved", matches |-> matches, env |-> env,
                used |-> [f \in Flags |-> Setting(matches, env, f)]]
    /\ UNCHANGED <<bench, last, ex, nops, sg, abi, rpc, bn>>

InitSettings ==
    /\ bench = <<Command_new(RootName)>>
    /\ last = NoOp
    /\ ex = Idle
    /\ nops = 0
    /\ sg = SignIdle
    /\ abi = AbiIdle
    /\ rpc = RpcIdle
    /\ bn = BenchIdle
    /\ st = SettingsIdle

NextSettings == main_settings

SpecSettings == InitSettings /\ [][NextSettings]_vars

\* C16: each setting is the flag when given, otherwise the environment
\* variable when set, otherwise the default.
C16_FlagThenEnvThenDefault ==
    st.pc = "resolved" =>
      \A f \in Flags :
        st.used[f] = IF st.matches[f].some THEN st.matches[f].value
                     ELSE IF st.env[EnvKey(f)].set THEN st.env[EnvKey(f)].value
                     ELSE Default(f)

\* the grammar and the child map of one node agree
GrammarMatchesChildMap(c) ==
    /\ SubcommandNames(c.app) = DOMAIN c.subcmds
    /\ \A k \in DOMAIN c.subcmds : get_name(c.subcmds[k]) = k
    /\ NoDuplicateNames(c.app)

\* C17: after any sequence of subcommand, subcommands and rename_subcommand
\* the names in a node's grammar are exactly the keys of its child map, each
\* key is the name of the child stored under it, and no name occurs twice in
\* the grammar.
C17_GrammarMatchesChildMap ==
    \A i \in DOMAIN bench : GrammarMatchesChildMap(bench[i])

====
